---------------------------- MODULE Spec2Model ----------------------------
(***************************************************************************)
(* Model of source/features/pr-review-status.tsx: the review-status badge  *)
(* of the pull-request list.                                               *)
(*                                                                         *)
(*   - createReviewBadge and its helpers are pure functions, modelled as   *)
(*     operators over a pull-request snapshot (the GraphQL answer).        *)
(*   - addReviewStatus is an async function: one atomic step up to the     *)
(*     await of api.v4 (filter, map, early return, query), and one atomic  *)
(*     step after it (the for loop over prConfigs).  Several invocations   *)
(*     may be between the two steps at once.                               *)
(*                                                                         *)
(* An optional value (x?: T, T | undefined, a nullable GraphQL field) is a *)
(* sequence of length at most one: <<>> is undefined/null, <<v>> is v.     *)
(***************************************************************************)
EXTENDS Integers, Sequences, FiniteSets, TLC

VARIABLES
    prData,        \* classifier: the snapshot handed to createReviewBadge
    badge,         \* classifier: <<>> before the call, <<result>> after it
    loggedInUser,  \* getLoggedInUser(): <<>> or <<login>>
    page,          \* DOM: for each link, the elements that follow it in its parent
    pc,            \* per invocation: "idle", "waiting" (at the await), "done", "returned", "rejected"
    links,         \* per invocation: the argument of addReviewStatus
    prConfigs,     \* per invocation: the filtered and mapped links
    queries,       \* per invocation: the batch queries handed to api.v4
    response,      \* per invocation: <<>> or <<data>>, the answer of api.v4
    startPage,     \* per invocation: the page when it was called
    loopPage,      \* per invocation: the page when its loop began
    endPage,       \* per invocation: the page when its loop ended
    doneBefore,    \* per invocation: the invocations that had ended when it was called
    remote         \* what the API holds for each key of the page

vars == <<prData, badge, loggedInUser, page, pc, links, prConfigs, queries,
          response, startPage, loopPage, endPage, doneBefore, remote>>

-----------------------------------------------------------------------------
(* Optional values *)

Undefined == <<>>

Some(x) == <<x>>

IsDefined(o) == o # <<>>

\* JavaScript truthiness of an optional string: defined and not empty.
Truthy(o) == o # <<>> /\ o[1] # ""

Option(S) == {Undefined} \cup {Some(x) : x \in S}

\* All sequences over S of length at most n.
SeqUpTo(S, n) == UNION {[1..k -> S] : k \in 0..n}

-----------------------------------------------------------------------------
(* Strings whose characters matter (the title) are sequences of characters *)

UpperLetters ==
    <<"A","B","C","D","E","F","G","H","I","J","K","L","M",
      "N","O","P","Q","R","S","T","U","V","W","X","Y","Z">>

LowerLetters ==
    <<"a","b","c","d","e","f","g","h","i","j","k","l","m",
      "n","o","p","q","r","s","t","u","v","w","x","y","z">>

\* String.prototype.toLowerCase, one character.
toLowerCaseChar(c) ==
    IF \E k \in 1..26 : UpperLetters[k] = c
    THEN LowerLetters[CHOOSE k \in 1..26 : UpperLetters[k] = c]
    ELSE c

\* String.prototype.toLowerCase.
toLowerCase(s) == [k \in 1..Len(s) |-> toLowerCaseChar(s[k])]

\* String.prototype.includes.
includes(s, sub) ==
    \E k \in 0..(Len(s) - Len(sub)) :
        \A j \in 1..Len(sub) : s[k + j] = sub[j]

-----------------------------------------------------------------------------
(* The pure helpers of the classifier *)

\* A JSX element: its class tokens, its aria-label, its icon child and the
\* optional indicator child (given by the indicator's aria-label).
Element(className, ariaLabel, icon, indicator) ==
    [className |-> className, ariaLabel |-> ariaLabel,
     icon |-> icon, indicator |-> indicator]

\* x?.login for an optional {login: string}.
loginOf(author) == IF IsDefined(author) THEN Some(author[1].login) ELSE Undefined

\* x?.oid for an optional {oid: string}.
oidOf(commit) == IF IsDefined(commit) THEN Some(commit[1].oid) ELSE Undefined

\* x?.state for an optional review.
stateOf(review) == IF IsDefined(review) THEN Some(review[1].state) ELSE Undefined

\* The number of distinct approvers that makes an own pull request mergeable.
ApprovalsNeeded == 2

getReviewIconConfig(reviewState, hasNewCommits) ==
    CASE reviewState = Some("APPROVED") ->
            Some([icon |-> "CheckIcon",
                  label |-> IF hasNewCommits
                            THEN "You approved this PR (new commits since review)"
                            ELSE "You approved this PR",
                  className |-> "rgh-review-status-approved"])
      [] reviewState = Some("CHANGES_REQUESTED") ->
            Some([icon |-> "XIcon",
                  label |-> IF hasNewCommits
                            THEN "You requested changes on this PR (new commits since review)"
                            ELSE "You requested changes on this PR",
                  className |-> "rgh-review-status-changes"])
      [] reviewState = Some("COMMENTED") ->
            Some([icon |-> "CommentIcon",
                  label |-> IF hasNewCommits
                            THEN "You commented on this PR (new commits since review)"
                            ELSE "You commented on this PR",
                  className |-> "rgh-review-status-commented"])
      [] OTHER -> Undefined

getApprovalCount(reviews) ==
    IF ~IsDefined(reviews)
    THEN 0
    ELSE Cardinality({loginOf(reviews[1].nodes[k].author)[1] :
            k \in {j \in 1..Len(reviews[1].nodes) :
                    /\ reviews[1].nodes[j].state = "APPROVED"
                    /\ Truthy(loginOf(reviews[1].nodes[j].author))}})

\* Mutant: asks for more than the needed approvals.
isReadyToMerge_offByOne(isMyPr, isDraft, reviews) ==
    isMyPr /\ ~isDraft /\ getApprovalCount(reviews) > ApprovalsNeeded

isReadyToMerge(isMyPr, isDraft, reviews) ==
    isMyPr /\ ~isDraft /\ getApprovalCount(reviews) >= ApprovalsNeeded

Wip == <<"w", "i", "p">>

needsReview(reviewState, isDraft, title) ==
    LET titleContainsWip == includes(toLowerCase(title), Wip)
    IN  ~Truthy(reviewState) /\ ~isDraft /\ ~titleContainsWip

hasNewCommitsAfterReview(reviewCommitOid, headRefOid) ==
    /\ Truthy(reviewCommitOid)
    /\ Truthy(headRefOid)
    /\ reviewCommitOid # headRefOid

IsCommentOrChanges(review) ==
    review.state = "COMMENTED" \/ review.state = "CHANGES_REQUESTED"

\* Mutant: returns the last matching review of the list instead of the first.
getLatestCommentOrChangesRequested_last(latestReviews) ==
    IF ~IsDefined(latestReviews)
    THEN Undefined
    ELSE LET nodes == latestReviews[1].nodes
             hits == {k \in 1..Len(nodes) : IsCommentOrChanges(nodes[k])}
         IN  IF hits = {}
             THEN Undefined
             ELSE LET last == CHOOSE k \in hits : \A j \in hits : j <= k
                  IN  Some([state |-> nodes[last].state,
                            commitOid |-> oidOf(nodes[last].commit)])

getLatestCommentOrChangesRequested(latestReviews) ==
    IF ~IsDefined(latestReviews)
    THEN Undefined
    ELSE LET nodes == latestReviews[1].nodes
             hits == {k \in 1..Len(nodes) : IsCommentOrChanges(nodes[k])}
         IN  IF hits = {}
             THEN Undefined
             ELSE LET first == CHOOSE k \in hits : \A j \in hits : k <= j
                  IN  Some([state |-> nodes[first].state,
                            commitOid |-> oidOf(nodes[first].commit)])

\* reviewThreads?.nodes?.some(thread => !thread.isResolved) ?? false
hasOpenConversationsOf(reviewThreads) ==
    IF ~IsDefined(reviewThreads)
    THEN FALSE
    ELSE \E k \in 1..Len(reviewThreads[1].nodes) :
            ~reviewThreads[1].nodes[k].isResolved

\* Mutant: the class that marks a badge is misspelt.
BadgeClasses_misspelt(last) == <<"rgh-pr-review-stauts", "tooltipped", "tooltipped-n", last>>

\* The className of every span createReviewBadge returns.
BadgeClasses(last) == <<"rgh-pr-review-status", "tooltipped", "tooltipped-n", last>>

\* The span returned for an own pull request with enough approvals.
ReadyToMergeBadge(prData_) ==
    LET approvalCount == getApprovalCount(prData_.reviews)
        hasOpenConversations == hasOpenConversationsOf(prData_.reviewThreads)
    IN  Element(BadgeClasses("rgh-review-status-to-merge"),
                "Ready to merge (" \o ToString(approvalCount) \o " approvals)"
                    \o (IF hasOpenConversations THEN " - Open conversations" ELSE ""),
                "assets/merge-parrot.gif",
                IF hasOpenConversations THEN Some("Open conversations") ELSE Undefined)

\* The span returned for feedback on an own pull request.
FeedbackBadge(latestCommentOrChanges) ==
    LET isChangesRequested == latestCommentOrChanges.state = "CHANGES_REQUESTED"
    IN  Element(BadgeClasses("rgh-review-status-feedback"),
                IF isChangesRequested
                THEN "Changes requested on your PR"
                ELSE "Comment on your PR",
                "FileDiffIcon", Undefined)

ReviewNeededBadge ==
    Element(BadgeClasses("rgh-review-status-needed"), "Review needed", "EyeIcon", Undefined)

\* The span returned for the viewer's own review.
ReviewedBadge(iconConfig, hasNewCommits) ==
    LET statusClassName == IF hasNewCommits
                           THEN "rgh-review-status-updated"
                           ELSE "rgh-review-status-reviewed"
    IN  Element(BadgeClasses(statusClassName), iconConfig.label, iconConfig.icon,
                IF hasNewCommits THEN Some("New commits since your review") ELSE Undefined)

\* The second half of createReviewBadge: the rules for somebody else's pull request.
ReviewerBadge(prData_) ==
    LET reviewState == stateOf(prData_.viewerLatestReview)
    IN  IF needsReview(reviewState, prData_.isDraft, prData_.title)
        THEN Some(ReviewNeededBadge)
        ELSE IF \/ ~Truthy(reviewState)
                \/ reviewState = Some("DISMISSED")
                \/ reviewState = Some("PENDING")
        THEN Undefined
        ELSE LET reviewCommitOid ==
                     IF IsDefined(prData_.viewerLatestReview)
                     THEN oidOf(prData_.viewerLatestReview[1].commit)
                     ELSE Undefined
                 hasNewCommits ==
                     hasNewCommitsAfterReview(reviewCommitOid, Some(prData_.headRefOid))
                 iconConfig == getReviewIconConfig(reviewState, hasNewCommits)
             IN  IF ~IsDefined(iconConfig)
                 THEN Undefined
                 ELSE Some(ReviewedBadge(iconConfig[1], hasNewCommits))

\* Mutant: the early return for an own pull request is missing.
createReviewBadge_noOwnPrReturn(prData_, loggedInUser_) ==
    LET isMyPr == loginOf(prData_.author) = loggedInUser_
        latestCommentOrChanges ==
            getLatestCommentOrChangesRequested(prData_.latestReviews)
    IN  IF isReadyToMerge(isMyPr, prData_.isDraft, prData_.reviews)
        THEN Some(ReadyToMergeBadge(prData_))
        ELSE IF /\ isMyPr
                /\ ~prData_.isDraft
                /\ IsDefined(latestCommentOrChanges)
                /\ ~hasNewCommitsAfterReview(latestCommentOrChanges[1].commitOid,
                                             Some(prData_.headRefOid))
        THEN Some(FeedbackBadge(latestCommentOrChanges[1]))
        ELSE ReviewerBadge(prData_)

createReviewBadge(prData_, loggedInUser_) ==
    LET isMyPr == loginOf(prData_.author) = loggedInUser_
        latestCommentOrChanges ==
            getLatestCommentOrChangesRequested(prData_.latestReviews)
    IN  IF isReadyToMerge(isMyPr, prData_.isDraft, prData_.reviews)
        THEN Some(ReadyToMergeBadge(prData_))
        ELSE IF /\ isMyPr
                /\ ~prData_.isDraft
                /\ IsDefined(latestCommentOrChanges)
                /\ ~hasNewCommitsAfterReview(latestCommentOrChanges[1].commitOid,
                                             Some(prData_.headRefOid))
        THEN Some(FeedbackBadge(latestCommentOrChanges[1]))
        ELSE IF isMyPr
        THEN Undefined
        ELSE ReviewerBadge(prData_)

-----------------------------------------------------------------------------
(* The page and addReviewStatus *)

\* The anchors of the page the observer may hand over.
Links == {"linkA", "linkB", "linkC"}

\* link.closest('.js-issue-row'): each row holds one pull-request link;
\* linkC stands outside any row.
closestRow(link) ==
    CASE link = "linkA" -> Some("row1")
      [] link = "linkB" -> Some("row2")
      [] OTHER -> Undefined

\* link.pathname.split('/')
splitPathname(link) ==
    CASE link = "linkA" -> <<"", "octo", "repo", "pull", "1">>
      [] link = "linkB" -> <<"", "octo", "repo", "pull", "2">>
      [] OTHER -> <<"", "octo", "repo", "pull", "3">>

\* Number(prNumber) for the pull-request numbers of the page.
Number(text) ==
    CASE text = "1" -> 1
      [] text = "2" -> 2
      [] OTHER -> 3

\* api.escapeKey: one identifier per pull request.
escapeKey(owner, name, prNumber) == "_" \o owner \o "_" \o name \o "_" \o prNumber

\* classList.contains
classListContains(element, token) ==
    \E k \in 1..Len(element.className) : element.className[k] = token

\* row.querySelector('.rgh-pr-review-status') finds an element: the row holds
\* its link and the elements that follow the link.
rowHasBadge(pg, row) ==
    \E l \in Links :
        /\ closestRow(l) = Some(row)
        /\ \E k \in 1..Len(pg[l]) : classListContains(pg[l][k], "rgh-pr-review-status")

\* Mutant: the filter keeps every link that stands in a row, badged or not.
notYetProcessed_rowOnly(pg, link) ==
    IsDefined(closestRow(link))

\* The filter of addReviewStatus: row && !row.querySelector('.rgh-pr-review-status')
notYetProcessed(pg, link) ==
    LET row == closestRow(link)
    IN  IsDefined(row) /\ ~rowHasBadge(pg, row[1])

\* The map of addReviewStatus.
toPrConfig(link) ==
    LET parts == splitPathname(link)
        owner == parts[2]
        name == parts[3]
        prNumber == parts[5]
    IN  [key |-> escapeKey(owner, name, prNumber), link |-> link,
         owner |-> owner, name |-> name, number |-> Number(prNumber)]

RECURSIVE filterLinks(_, _)
filterLinks(pg, ls) ==
    IF ls = <<>>
    THEN <<>>
    ELSE (IF notYetProcessed(pg, Head(ls)) THEN <<Head(ls)>> ELSE <<>>)
            \o filterLinks(pg, Tail(ls))

makePrConfigs(pg, ls) ==
    LET kept == filterLinks(pg, ls)
    IN  [k \in 1..Len(kept) |-> toPrConfig(kept[k])]

\* One entry of the batch query per prConfig (the requested fields are fixed).
batchQueryOf(cfgs) ==
    [k \in 1..Len(cfgs) |->
        [key |-> cfgs[k].key, owner |-> cfgs[k].owner,
         name |-> cfgs[k].name, number |-> cfgs[k].number]]

\* Mutant: data[pr.key].pullRequest, without the optional chaining.
lookupPullRequest_unchained(data, key) ==
    IF key \notin DOMAIN data \/ ~IsDefined(data[key])
    THEN [threw |-> TRUE, value |-> Undefined]
    ELSE [threw |-> FALSE, value |-> data[key][1].pullRequest]

\* data[pr.key]?.pullRequest: data maps a key to <<>> (a null repository) or
\* to a repository whose pullRequest is <<>> (null) or a snapshot.
lookupPullRequest(data, key) ==
    IF key \notin DOMAIN data \/ ~IsDefined(data[key])
    THEN [threw |-> FALSE, value |-> Undefined]
    ELSE [threw |-> FALSE, value |-> data[key][1].pullRequest]

\* Mutant: the check just before the insertion is missing.
nextSiblingIsBadge_never(pg, link) == FALSE

\* pr.link.nextElementSibling?.classList.contains('rgh-pr-review-status')
nextSiblingIsBadge(pg, link) ==
    pg[link] # <<>> /\ classListContains(pg[link][1], "rgh-pr-review-status")

\* link.after(element)
after(pg, link, element) == [pg EXCEPT ![link] = <<element>> \o @]

\* One iteration of the for loop of addReviewStatus.
loopBody(st, pr, data, user) ==
    LET found == lookupPullRequest(data, pr.key)
    IN  IF found.threw
        THEN [page |-> st.page, threw |-> TRUE]
        ELSE IF ~IsDefined(found.value)
        THEN st
        ELSE IF nextSiblingIsBadge(st.page, pr.link)
        THEN st
        ELSE LET made == createReviewBadge(found.value[1], user)
             IN  IF IsDefined(made)
                 THEN [page |-> after(st.page, pr.link, made[1]), threw |-> FALSE]
                 ELSE st

\* The for loop of addReviewStatus, from prConfigs[k] on.
RECURSIVE forLoop(_, _, _, _, _)
forLoop(st, cfgs, k, data, user) ==
    IF k > Len(cfgs) \/ st.threw
    THEN st
    ELSE forLoop(loopBody(st, cfgs[k], data, user), cfgs, k + 1, data, user)

-----------------------------------------------------------------------------
(* Bounds and input sets *)

\* Longest list of approving reviews of a snapshot.
MaxReviews == 2

\* Longest list of latest reviews of a snapshot.
MaxLatestReviews == 2

\* Number of invocations of addReviewStatus.
MaxInvocations == 2

Snapshot(isDraft, title, author, reviews, reviewThreads, latestReviews, viewerLatestReview, headRefOid) ==
    [isDraft |-> isDraft, title |-> title, author |-> author, reviews |-> reviews,
     reviewThreads |-> reviewThreads, latestReviews |-> latestReviews,
     viewerLatestReview |-> viewerLatestReview, headRefOid |-> headRefOid]

Author(login) == Some([login |-> login])

Commit(oid) == Some([oid |-> oid])

Nodes(list) == Some([nodes |-> list])

TitleAddFeature == <<"A","d","d"," ","f","e","a","t","u","r","e">>

TitleWipAddFeature == <<"W","I","P",":"," ","a","d","d"," ","f","e","a","t","u","r","e">>

Titles ==
    {TitleAddFeature, TitleWipAddFeature, <<>>, <<"w","i","p">>,
     <<"[","W","i","P","]"," ","x">>, <<"S","w","i","p","e">>,
     <<"w"," ","i"," ","p">>, <<"w","i">>, <<"f","i","x"," ","w","I","p">>}

Authors == {Undefined, Author("me"), Author("bob")}

Viewers == {Undefined, Some("me")}

Oids == {"c1", "c2"}

\* reviews(states: APPROVED): approving reviews, one of them by a deleted account.
ApprovingReviews ==
    {[state |-> "APPROVED", author |-> a] :
        a \in {Author("bob"), Author("carol"), Undefined}}

LatestReviewNodes ==
    {[state |-> "APPROVED", commit |-> Commit("c1")],
     [state |-> "COMMENTED", commit |-> Commit("c1")],
     [state |-> "CHANGES_REQUESTED", commit |-> Commit("c2")],
     [state |-> "CHANGES_REQUESTED", commit |-> Undefined]}

ReviewStates == {"APPROVED", "CHANGES_REQUESTED", "COMMENTED", "DISMISSED", "PENDING"}

ViewerReviews ==
    {Undefined} \cup
    {Some([state |-> st, commit |-> c]) :
        st \in ReviewStates, c \in {Undefined} \cup {Commit(o) : o \in Oids}}

ThreadLists ==
    {Undefined, Nodes(<<[isResolved |-> TRUE]>>),
     Nodes(<<[isResolved |-> TRUE], [isResolved |-> FALSE]>>)}

ReviewLists == {Undefined} \cup {Nodes(n) : n \in SeqUpTo(ApprovingReviews, MaxReviews)}

LatestReviewLists ==
    {Undefined} \cup {Nodes(n) : n \in SeqUpTo(LatestReviewNodes, MaxLatestReviews)}

TwoApprovals ==
    Nodes(<<[state |-> "APPROVED", author |-> Author("bob")],
            [state |-> "APPROVED", author |-> Author("carol")]>>)

\* The snapshots the API answers with in the model of the page.
SnapshotReviewed ==
    Snapshot(FALSE, TitleAddFeature, Author("bob"), Undefined, Undefined, Undefined,
             Some([state |-> "APPROVED", commit |-> Commit("c1")]), "c2")

SnapshotWip ==
    Snapshot(FALSE, TitleWipAddFeature, Author("bob"), Undefined, Undefined, Undefined,
             Undefined, "c1")

PageSnapshots == {SnapshotReviewed, SnapshotWip}

\* What data holds for one key: a repository with a null pull request or with
\* a snapshot.
Entries ==
    {Some([pullRequest |-> Undefined])}
        \cup {Some([pullRequest |-> Some(s)]) : s \in PageSnapshots}

KeysOf(cfgs) == {cfgs[k].key : k \in 1..Len(cfgs)}

\* The keys the page can ask for: linkC stands in no row and is never queried.
PageKeys == {toPrConfig(l).key : l \in {x \in Links : IsDefined(closestRow(x))}}

\* What the API may hold: any key may be missing.
Remotes == UNION {[D -> Entries] : D \in SUBSET PageKeys}

\* The answer of api.v4 to a query: what the API holds for the keys of the query.
responseTo(cfgs, held) == [k \in KeysOf(cfgs) \cap DOMAIN held |-> held[k]]

Invocations == 1..MaxInvocations

\* The anchors in document order.
DocumentOrder == <<"linkA", "linkB", "linkC">>

PositionOf(link) == CHOOSE k \in 1..Len(DocumentOrder) : DocumentOrder[k] = link

\* The observer hands over each anchor once, in document order: a list of the
\* batching helper is any selection of the anchors of the page.
LinkLists == {ls \in SeqUpTo(Links, Len(DocumentOrder)) :
                \A j, k \in 1..Len(ls) : j < k => PositionOf(ls[j]) < PositionOf(ls[k])}

EmptyPage == [l \in Links |-> <<>>]

-----------------------------------------------------------------------------
(* The classifier as a state machine: one call of createReviewBadge *)

PageIdle ==
    /\ page = EmptyPage
    /\ pc = [i \in Invocations |-> "idle"]
    /\ links = [i \in Invocations |-> <<>>]
    /\ prConfigs = [i \in Invocations |-> <<>>]
    /\ queries = [i \in Invocations |-> <<>>]
    /\ response = [i \in Invocations |-> Undefined]
    /\ startPage = [i \in Invocations |-> EmptyPage]
    /\ loopPage = [i \in Invocations |-> EmptyPage]
    /\ endPage = [i \in Invocations |-> EmptyPage]
    /\ doneBefore = [i \in Invocations |-> {}]

\* Snapshots that vary what the rules for an own pull request read.
OwnRuleSnapshot ==
    \E d \in BOOLEAN, t \in {TitleAddFeature, TitleWipAddFeature}, a \in Authors,
       r \in ReviewLists,
       th \in {Undefined, Nodes(<<[isResolved |-> TRUE], [isResolved |-> FALSE]>>)},
       lr \in LatestReviewLists,
       vr \in {Undefined, Some([state |-> "APPROVED", commit |-> Commit("c1")])},
       h \in Oids :
        prData = Snapshot(d, t, a, r, th, lr, vr, h)

\* Snapshots that vary what the rules for somebody else's pull request read.
ReviewerRuleSnapshot ==
    \E d \in BOOLEAN, t \in Titles, a \in Authors,
       r \in {Undefined, TwoApprovals},
       th \in ThreadLists,
       lr \in {Undefined, Nodes(<<[state |-> "COMMENTED", commit |-> Commit("c1")]>>)},
       vr \in ViewerReviews,
       h \in Oids :
        prData = Snapshot(d, t, a, r, th, lr, vr, h)

InitClassify ==
    /\ OwnRuleSnapshot \/ ReviewerRuleSnapshot
    /\ loggedInUser \in Viewers
    /\ badge = Undefined
    /\ remote = [k \in {} |-> Undefined]
    /\ PageIdle

Classify ==
    /\ badge = Undefined
    /\ badge' = Some(createReviewBadge(prData, loggedInUser))
    /\ UNCHANGED <<prData, loggedInUser, page, pc, links, prConfigs, queries,
                   response, startPage, loopPage, endPage, doneBefore, remote>>

NextClassify == Classify

SpecClassify == InitClassify /\ [][NextClassify]_vars

-----------------------------------------------------------------------------
(* addReviewStatus as a state machine *)

Init ==
    /\ prData = SnapshotWip
    /\ badge = Undefined
    /\ loggedInUser = Some("me")
    /\ remote \in Remotes
    /\ PageIdle

Ended(i) == pc[i] \in {"done", "returned", "rejected", "threw"}

\* addReviewStatus(ls) up to its await: the filter, the map, the early return
\* and the call of api.v4.  Invocations are numbered in the order of their calls.
Call(i, ls) ==
    /\ pc[i] = "idle"
    /\ \A j \in Invocations : j < i => pc[j] # "idle"
    /\ LET cfgs == makePrConfigs(page, ls)
       IN  /\ links' = [links EXCEPT ![i] = ls]
           /\ prConfigs' = [prConfigs EXCEPT ![i] = cfgs]
           /\ startPage' = [startPage EXCEPT ![i] = page]
           /\ doneBefore' = [doneBefore EXCEPT ![i] = {j \in Invocations : Ended(j)}]
           /\ IF Len(cfgs) = 0
              THEN /\ pc' = [pc EXCEPT ![i] = "returned"]
                   /\ endPage' = [endPage EXCEPT ![i] = page]
                   /\ UNCHANGED queries
              ELSE /\ pc' = [pc EXCEPT ![i] = "waiting"]
                   /\ queries' = [queries EXCEPT ![i] = Append(@, batchQueryOf(cfgs))]
                   /\ UNCHANGED endPage
    /\ UNCHANGED <<prData, badge, loggedInUser, page, response, loopPage, remote>>

\* api.v4 resolves with data: getLoggedInUser and the for loop.
Resolve(i) ==
    /\ pc[i] = "waiting"
    /\ LET data == responseTo(prConfigs[i], remote)
           st == forLoop([page |-> page, threw |-> FALSE], prConfigs[i], 1,
                         data, loggedInUser)
       IN  /\ page' = st.page
           /\ endPage' = [endPage EXCEPT ![i] = st.page]
           /\ pc' = [pc EXCEPT ![i] = IF st.threw THEN "threw" ELSE "done"]
           /\ response' = [response EXCEPT ![i] = Some(data)]
    /\ loopPage' = [loopPage EXCEPT ![i] = page]
    /\ UNCHANGED <<prData, badge, loggedInUser, links, prConfigs, queries,
                   startPage, doneBefore, remote>>

\* api.v4 rejects: the promise of addReviewStatus rejects, the loop never runs.
Reject(i) ==
    /\ pc[i] = "waiting"
    /\ pc' = [pc EXCEPT ![i] = "rejected"]
    /\ endPage' = [endPage EXCEPT ![i] = page]
    /\ UNCHANGED <<prData, badge, loggedInUser, page, links, prConfigs, queries,
                   response, startPage, loopPage, doneBefore, remote>>

Next ==
    \/ \E i \in Invocations : \E ls \in LinkLists : Call(i, ls)
    \/ \E i \in Invocations : Resolve(i)
    \/ \E i \in Invocations : Reject(i)

Spec == Init /\ [][Next]_vars

-----------------------------------------------------------------------------
(* Vocabulary of the claims about the classifier *)

Classified == badge # Undefined

Result == badge[1]

HasClass(result, token) == IsDefined(result) /\ classListContains(result[1], token)

\* The BadgeCategory of the data model, read off the returned element.
Category(result) ==
    IF ~IsDefined(result) THEN "None"
    ELSE IF HasClass(result, "rgh-review-status-to-merge") THEN "ReadyToMerge"
    ELSE IF HasClass(result, "rgh-review-status-feedback") THEN "FeedbackPending"
    ELSE IF HasClass(result, "rgh-review-status-needed") THEN "ReviewNeeded"
    ELSE IF result[1].icon = "CheckIcon" THEN "Approved"
    ELSE IF result[1].icon = "XIcon" THEN "ChangesRequested"
    ELSE IF result[1].icon = "CommentIcon" THEN "Commented"
    ELSE "Unknown"

\* The viewer is known, the snapshot has an author, and the logins are equal.
AuthoredByViewer ==
    /\ IsDefined(loggedInUser)
    /\ IsDefined(prData.author)
    /\ prData.author[1].login = loggedInUser[1]

\* The logins that approved, among the fetched approving reviews.
ApprovingLogins ==
    IF ~IsDefined(prData.reviews) THEN {}
    ELSE LET nodes == prData.reviews[1].nodes
         IN  {nodes[k].author[1].login :
                k \in {j \in 1..Len(nodes) :
                        nodes[j].state = "APPROVED" /\ IsDefined(nodes[j].author)}}

LatestNodes == IF IsDefined(prData.latestReviews) THEN prData.latestReviews[1].nodes ELSE <<>>

\* Node k of the latest reviews is a COMMENTED or CHANGES_REQUESTED review.
IsFeedback(k) == LatestNodes[k].state \in {"COMMENTED", "CHANGES_REQUESTED"}

\* Node k is the most recent COMMENTED or CHANGES_REQUESTED review: the first of the list.
IsMostRecentFeedback(k) ==
    /\ k \in 1..Len(LatestNodes)
    /\ IsFeedback(k)
    /\ \A j \in 1..(k - 1) : ~IsFeedback(j)

\* The commit id of node k is present and is the head commit id.
AtHead(k) ==
    /\ IsDefined(LatestNodes[k].commit)
    /\ LatestNodes[k].commit[1].oid = prData.headRefOid

ReadyToMergeRule ==
    AuthoredByViewer /\ ~prData.isDraft /\ Cardinality(ApprovingLogins) >= 2

\* C1: a snapshot that is not a draft, whose author login is the viewer's and
\* that has at least 2 distinct approving logins is classified ReadyToMerge,
\* whatever its title, review threads, latest reviews, viewer review and head commit.
C1_ReadyToMerge ==
    (Classified /\ ReadyToMergeRule) => Category(Result) = "ReadyToMerge"

\* C1, witness: ReadyToMerge for an own pull request titled WIP with an unresolved
\* thread, feedback at the head commit and a review of the viewer.
C1_Witness ==
    /\ Classified
    /\ ReadyToMergeRule
    /\ prData.title = TitleWipAddFeature
    /\ hasOpenConversationsOf(prData.reviewThreads)
    /\ \E k \in 1..Len(LatestNodes) : IsFeedback(k) /\ AtHead(k)
    /\ IsDefined(prData.viewerLatestReview)
    /\ Category(Result) = "ReadyToMerge"
    /\ Result[1].ariaLabel = "Ready to merge (2 approvals) - Open conversations"

\* C2 as stated: an own pull request, not a draft, with fewer than 2 distinct
\* approvals, whose latest reviews hold at any position a COMMENTED or
\* CHANGES_REQUESTED review at the head commit, is classified FeedbackPending.
C2_FeedbackAtAnyPosition ==
    (/\ Classified
     /\ AuthoredByViewer
     /\ ~prData.isDraft
     /\ Cardinality(ApprovingLogins) < 2
     /\ \E k \in 1..Len(LatestNodes) : IsFeedback(k) /\ AtHead(k))
    => Category(Result) = "FeedbackPending"

\* C2, amended: an own pull request, not a draft, with fewer than 2 distinct
\* approvals, whose first COMMENTED or CHANGES_REQUESTED review of the latest
\* reviews is at the head commit, is classified FeedbackPending, whatever reviews
\* of other states precede it and whatever reviews follow it.
C2_FeedbackPending ==
    (/\ Classified
     /\ AuthoredByViewer
     /\ ~prData.isDraft
     /\ Cardinality(ApprovingLogins) < 2
     /\ \E k \in 1..Len(LatestNodes) : IsMostRecentFeedback(k) /\ AtHead(k))
    => Category(Result) = "FeedbackPending"

\* C2, witness: FeedbackPending where the review at the head commit is the second
\* of the list, after an APPROVED one.
C2_Witness ==
    /\ Classified
    /\ AuthoredByViewer
    /\ ~prData.isDraft
    /\ Cardinality(ApprovingLogins) < 2
    /\ Len(LatestNodes) = 2
    /\ LatestNodes[1].state = "APPROVED"
    /\ IsMostRecentFeedback(2) /\ AtHead(2)
    /\ Category(Result) = "FeedbackPending"

\* The FeedbackPending rule as the claims state it: not a draft, and the most
\* recent COMMENTED or CHANGES_REQUESTED review is at the head commit.
FeedbackRuleAsStated ==
    /\ AuthoredByViewer
    /\ ~prData.isDraft
    /\ \E k \in 1..Len(LatestNodes) : IsMostRecentFeedback(k) /\ AtHead(k)

\* The FeedbackPending rule of the code: not a draft, and the most recent
\* COMMENTED or CHANGES_REQUESTED review has no commit id or is at the head commit.
FeedbackRuleOfCode ==
    /\ AuthoredByViewer
    /\ ~prData.isDraft
    /\ \E k \in 1..Len(LatestNodes) :
            /\ IsMostRecentFeedback(k)
            /\ (~IsDefined(LatestNodes[k].commit) \/ AtHead(k))

ReviewerCategories == {"ReviewNeeded", "Approved", "ChangesRequested", "Commented"}

\* C3 as stated: an own pull request that matches neither the ReadyToMerge rule
\* nor the FeedbackPending rule (commit id equal to the head commit id) gets no
\* badge, and an own pull request never gets a reviewer badge.
C3_NoBadgeAsStated ==
    (Classified /\ AuthoredByViewer) =>
        /\ (~ReadyToMergeRule /\ ~FeedbackRuleAsStated) => Category(Result) = "None"
        /\ Category(Result) \notin ReviewerCategories

\* C3, amended: an own pull request gets no badge when it matches neither the
\* ReadyToMerge rule nor the FeedbackPending rule, where a most recent COMMENTED
\* or CHANGES_REQUESTED review without a commit id counts as feedback pending;
\* and an own pull request never gets a reviewer badge.
C3_NoBadge ==
    (Classified /\ AuthoredByViewer) =>
        /\ (~ReadyToMergeRule /\ ~FeedbackRuleOfCode) => Category(Result) = "None"
        /\ Category(Result) \notin ReviewerCategories

\* C3, witness: no badge for an own pull request, not a draft, whose most recent
\* CHANGES_REQUESTED review is at another commit than the head, although a later
\* COMMENTED review is at the head and the review-needed rule would apply.
C3_Witness ==
    /\ Classified
    /\ AuthoredByViewer
    /\ ~prData.isDraft
    /\ ~ReadyToMergeRule
    /\ Len(LatestNodes) = 2
    /\ IsMostRecentFeedback(1) /\ IsDefined(LatestNodes[1].commit) /\ ~AtHead(1)
    /\ IsFeedback(2) /\ AtHead(2)
    /\ ~IsDefined(prData.viewerLatestReview)
    /\ prData.title = TitleAddFeature
    /\ Category(Result) = "None"

\* The title holds w, i, p in a row, each in either letter case.
TitleHasWip ==
    \E k \in 1..(Len(prData.title) - 2) :
        /\ prData.title[k] \in {"w", "W"}
        /\ prData.title[k + 1] \in {"i", "I"}
        /\ prData.title[k + 2] \in {"p", "P"}

HasViewerReview == IsDefined(prData.viewerLatestReview)

ViewerReviewState == prData.viewerLatestReview[1].state

\* The ReviewNeeded rule: no viewer review, not a draft, no wip in the title.
ReviewNeededRule == ~HasViewerReview /\ ~prData.isDraft /\ ~TitleHasWip

\* C4: a snapshot not authored by the viewer, with no viewer review, not a draft
\* and without wip in its title is classified ReviewNeeded; and ReviewNeeded is
\* never returned for a draft, a title with wip, or a snapshot with a viewer review.
C4_ReviewNeeded ==
    Classified =>
        /\ (~AuthoredByViewer /\ ReviewNeededRule) => Category(Result) = "ReviewNeeded"
        /\ Category(Result) = "ReviewNeeded" => ReviewNeededRule

\* The badge category that goes with a review state of the viewer.
CategoryOfState(st) ==
    CASE st = "APPROVED" -> "Approved"
      [] st = "CHANGES_REQUESTED" -> "ChangesRequested"
      [] st = "COMMENTED" -> "Commented"
      [] OTHER -> "None"

\* The returned badge is the 'updated' variant and holds the new-commits indicator.
IsUpdatedVariant(result) ==
    /\ HasClass(result, "rgh-review-status-updated")
    /\ result[1].indicator = Some("New commits since your review")

\* The viewer's review has a commit id and the head commit id differs from it.
HeadMovedSinceViewerReview ==
    /\ IsDefined(prData.viewerLatestReview[1].commit)
    /\ prData.viewerLatestReview[1].commit[1].oid # prData.headRefOid

\* C5: for a snapshot not authored by the viewer whose viewer review state is
\* APPROVED, CHANGES_REQUESTED or COMMENTED, the badge is the one of that state,
\* whatever the draft flag and the title, and it is the 'updated' variant with the
\* new-commits indicator exactly when the head commit id differs from the commit
\* id of the viewer's review.
C5_ViewerReviewBadge ==
    (/\ Classified
     /\ ~AuthoredByViewer
     /\ HasViewerReview
     /\ ViewerReviewState \in {"APPROVED", "CHANGES_REQUESTED", "COMMENTED"})
    => /\ Category(Result) = CategoryOfState(ViewerReviewState)
       /\ IsUpdatedVariant(Result) <=> HeadMovedSinceViewerReview
       /\ IsDefined(Result[1].indicator) <=> HeadMovedSinceViewerReview

\* C6: for a snapshot not authored by the viewer to which the ReviewNeeded rule
\* does not apply, no badge is returned when the viewer review state is absent,
\* DISMISSED or PENDING.
C6_NoReviewerBadge ==
    (/\ Classified
     /\ ~AuthoredByViewer
     /\ ~ReviewNeededRule
     /\ (HasViewerReview => ViewerReviewState \in {"DISMISSED", "PENDING"}))
    => Category(Result) = "None"

\* The viewer login is undefined or the snapshot has no author.
ViewerOrAuthorUnknown == ~IsDefined(loggedInUser) \/ ~IsDefined(prData.author)

\* The category the reviewer rules give: ReviewNeeded, or the category of the
\* viewer's review state (none when absent, DISMISSED or PENDING).
ReviewerRulesCategory ==
    IF ReviewNeededRule THEN "ReviewNeeded"
    ELSE IF ~HasViewerReview THEN "None"
    ELSE CategoryOfState(ViewerReviewState)

\* C11: when the logged-in user is undefined or the snapshot has no author, the
\* pull request is not treated as the viewer's own: the result is never a
\* ReadyToMerge or FeedbackPending badge, and it is what the reviewer rules give
\* (ReviewNeeded, no badge, or the badge of the viewer's review state).
C11_UnknownViewerNotOwnPr ==
    (Classified /\ ViewerOrAuthorUnknown)
    => /\ Category(Result) \notin {"ReadyToMerge", "FeedbackPending"}
       /\ Category(Result) = ReviewerRulesCategory

-----------------------------------------------------------------------------
(* Vocabulary of the claims about addReviewStatus *)

\* The badge elements that follow a link: those a row's badge query finds.
BadgesAfter(pg, l) ==
    {k \in 1..Len(pg[l]) : classListContains(pg[l][k], "rgh-pr-review-status")}

\* The number of badge elements of a row.
BadgeCount(pg, row) ==
    Cardinality(UNION {{<<l, k>> : k \in BadgesAfter(pg, l)} :
                        l \in {x \in Links : closestRow(x) = Some(row)}})

Rows == {closestRow(l)[1] : l \in {x \in Links : IsDefined(closestRow(x))}}

\* The links of a list, as a set.
Range(seq) == {seq[k] : k \in 1..Len(seq)}

\* The links invocation i kept after its filter.
KeptLinks(i) == {prConfigs[i][k].link : k \in 1..Len(prConfigs[i])}

\* C7: every pull-request row holds at most one badge element, in every state
\* and for every interleaving of the invocations.
C7_AtMostOneBadge ==
    \A row \in Rows : BadgeCount(page, row) <= 1

\* C7, witness: two invocations kept the same link while its row had no badge,
\* both were waiting at once, both got a snapshot that yields a badge for it,
\* both ended, and the row holds one badge.
C7_Witness ==
    \E i, j \in Invocations : \E l \in Links :
        /\ i < j
        /\ pc[i] = "done" /\ pc[j] = "done"
        /\ i \notin doneBefore[j]
        /\ l \in KeptLinks(i) \cap KeptLinks(j)
        /\ \A n \in {i, j} :
              /\ toPrConfig(l).key \in DOMAIN response[n][1]
              /\ response[n][1][toPrConfig(l).key] =
                    Some([pullRequest |-> Some(SnapshotReviewed)])
        /\ BadgeCount(page, closestRow(l)[1]) = 1

\* What invocation i got for a key: <<>> when the key is missing or its pull
\* request is null, otherwise the snapshot.
SnapshotFor(i, key) ==
    IF key \notin DOMAIN response[i][1] THEN Undefined
    ELSE IF ~IsDefined(response[i][1][key]) THEN Undefined
    ELSE response[i][1][key][1].pullRequest

\* Invocation j got for each key it asked for what invocation i got for it.
SameResponses(i, j) ==
    \A key \in KeysOf(prConfigs[j]) :
        /\ key \in DOMAIN response[j][1] <=> key \in DOMAIN response[i][1]
        /\ key \in DOMAIN response[j][1] => response[j][1][key] = response[i][1][key]

\* Invocation j repeats invocation i: i ran to its end before j was called, j got
\* the same links, the page did not change between the end of i and the loop of j,
\* and the API answered j as it answered i.
Repeats(i, j) ==
    /\ pc[i] = "done"
    /\ i \in doneBefore[j]
    /\ pc[j] \in {"done", "returned"}
    /\ links[j] = links[i]
    /\ startPage[j] = endPage[i]
    /\ pc[j] = "done" => (loopPage[j] = endPage[i] /\ SameResponses(i, j))

\* C8: a second invocation with the same links, on the unchanged page and with
\* the same answers, adds no badge and leaves the page as the first one left it,
\* with one badge in each row the first one badged and never two in a row.
C8_Idempotent ==
    \A i, j \in Invocations :
        Repeats(i, j) =>
            /\ endPage[j] = endPage[i]
            /\ \A row \in Rows : BadgeCount(endPage[j], row) <= 1
            /\ \A l \in KeptLinks(i) :
                  LET snap == SnapshotFor(i, toPrConfig(l).key)
                  IN  (IsDefined(snap) /\ IsDefined(createReviewBadge(snap[1], loggedInUser)))
                      => BadgeCount(endPage[j], closestRow(l)[1]) = 1

\* C8, witness: the first invocation badged one of its two rows and got a
\* snapshot without badge for the other; the second one asked again for the
\* other row and ran its loop.
C8_Witness ==
    \E i, j \in Invocations :
        /\ Repeats(i, j)
        /\ startPage[i] = EmptyPage
        /\ Len(prConfigs[i]) = 2
        /\ pc[j] = "done"
        /\ Len(prConfigs[j]) = 1
        /\ IsDefined(SnapshotFor(j, prConfigs[j][1].key))
        /\ \E row \in Rows : BadgeCount(endPage[j], row) = 1

\* The links of invocation i that stood in a row without badge when it was called.
RemainingLinks(i) ==
    SelectSeq(links[i],
              LAMBDA l : /\ IsDefined(closestRow(l))
                         /\ BadgeCount(startPage[i], closestRow(l)[1]) = 0)

\* Entry e of a batch query asks for the pull request of link l.
AsksFor(e, l) ==
    /\ e.owner = splitPathname(l)[2]
    /\ e.name = splitPathname(l)[3]
    /\ ToString(e.number) = splitPathname(l)[5]

\* C9: an invocation whose filter leaves no link makes no network call; any
\* other makes exactly one, with one entry for each remaining link and none for
\* a link that was filtered out.
C9_OneQueryPerInvocation ==
    \A i \in Invocations :
        pc[i] # "idle" =>
            LET rem == RemainingLinks(i)
            IN  IF rem = <<>>
                THEN queries[i] = <<>> /\ pc[i] = "returned"
                ELSE /\ pc[i] # "returned"
                     /\ Len(queries[i]) = 1
                     /\ Len(queries[i][1]) = Len(rem)
                     /\ \A k \in 1..Len(rem) : AsksFor(queries[i][1][k], rem[k])

\* C9, witness: one invocation asked for fewer pull requests than it got links,
\* and another, handed a link whose row held a badge, made no call.
C9_Witness ==
    \E i, j \in Invocations :
        /\ Len(queries[i]) = 1
        /\ Len(queries[i][1]) < Len(links[i])
        /\ pc[j] = "returned"
        /\ queries[j] = <<>>
        /\ \E l \in Range(links[j]) :
              /\ IsDefined(closestRow(l))
              /\ BadgeCount(startPage[j], closestRow(l)[1]) = 1

\* C10: when the answer lacks the key of a pull request or holds a null pull
\* request for it, the loop leaves the elements after its link as they were and
\* does not throw, and every other pull request of the batch is annotated with
\* the badge createReviewBadge returns for its snapshot.
C10_MissingDataSkipped ==
    \A i \in Invocations :
        IsDefined(response[i]) =>
            /\ pc[i] = "done"
            /\ \A k \in 1..Len(prConfigs[i]) :
                  LET l == prConfigs[i][k].link
                      snap == SnapshotFor(i, prConfigs[i][k].key)
                      made == createReviewBadge(snap[1], loggedInUser)
                  IN  IF ~IsDefined(snap)
                      THEN endPage[i][l] = loopPage[i][l]
                      ELSE IF BadgesAfter(loopPage[i], l) # {} \/ ~IsDefined(made)
                      THEN endPage[i][l] = loopPage[i][l]
                      ELSE endPage[i][l] = <<made[1]>> \o loopPage[i][l]

\* C10, witness: a batch of two pull requests whose answer lacks the first one
\* and holds a snapshot for the second, which got its badge.
C10_Witness ==
    \E i \in Invocations :
        /\ pc[i] = "done"
        /\ Len(prConfigs[i]) = 2
        /\ prConfigs[i][1].key \notin DOMAIN response[i][1]
        /\ SnapshotFor(i, prConfigs[i][2].key) = Some(SnapshotReviewed)
        /\ endPage[i][prConfigs[i][1].link] = <<>>
        /\ loopPage[i][prConfigs[i][2].link] = <<>>
        /\ Len(endPage[i][prConfigs[i][2].link]) = 1
        /\ Category(Some(endPage[i][prConfigs[i][2].link][1])) = "Approved"

=============================================================================
